---- MODULE Spec2Model ----
(***************************************************************************)
(* Atlas of Images backend: the in-memory image store, the FAISS-backed    *)
(* KNNService (add / search / k-NN graph), the UMAP coordinate             *)
(* normalisation and the FastAPI handlers of app.py that compose them.     *)
(*                                                                         *)
(* Numbers.  Embeddings are integer vectors.  A stored or query vector is  *)
(* a record [v, nsq] standing for v / sqrt(nsq), so that L2 normalisation  *)
(* is exact.  Every score, distance, weight and coordinate is an exact     *)
(* fraction [n, d] in lowest terms with d > 0.  A cosine score c is held   *)
(* as the fraction sign(c) * c^2, a strictly increasing image of c that    *)
(* fixes -1, 0 and 1; euclidean distances (FAISS returns squared L2) and   *)
(* euclidean weights are held as themselves.                               *)
(*                                                                         *)
(* Identifiers.  uuid4 values are opaque tokens; the model names each one  *)
(* by the order in which its record reaches the store.                     *)
(***************************************************************************)
EXTENDS Integers, Sequences, FiniteSets, TLC

VARIABLES
    image_database,        \* app.py:52  ordered records [id, embedding, coords]
    is_projection_fitted,  \* app.py:53
    knn,                   \* the KNNService singleton: [metric, index, embeddings, ids]
    faiss_ties,            \* how the FAISS build orders results of equal score
    coords_file,           \* DATA_DIR / coords.json
    graph_file,            \* DATA_DIR / graph.json
    inflight,              \* uploads suspended at `await file.read()`
    boots,                 \* restarts of the server process so far
    last                   \* outcome of the request or call that ran last

vars == <<image_database, is_projection_fitted, knn, faiss_ties,
          coords_file, graph_file, inflight, boots, last>>

(***************************************************************************)
(* Bounds of the model.                                                    *)
(***************************************************************************)
MaxImages == 3      \* uploads begun and not failed never exceed this
MaxInflight == 2    \* concurrent uploads suspended at the await
MaxK == 2           \* largest k passed to search and to the graph build
MaxPoints == 4      \* largest coordinate batch handed to normalize_coords
MaxBatch == 2       \* most rows, and most identifiers, in one add_embeddings call
MaxBoots == 1       \* restarts of the server process
MaxDescriptors == 4 \* most entries of top_objects in one name_cluster call

(***************************************************************************)
(* Program constants.                                                      *)
(***************************************************************************)
EmbeddingDim == 4   \* clip_service.embedding_dim, the D of the scenario
Scale == 10         \* scale=10.0 passed to normalize_coords

\* Python's None for an array or a coordinate triple: the empty tuple (an array
\* the program builds always has at least one row)
None == << >>

\* The embeddings and queries handed to the KNNService in SpecKnn: the three
\* vectors of the scenario (scaled by 100) and the zero vector.
EmbedSet == { <<100, 0, 0, 0>>, <<0, 100, 0, 0>>, <<100, 0, 1, 0>>, <<0, 0, 0, 0>> }

\* The embeddings the extractor returns for the uploads and queries of Spec.
UploadSet == { <<100, 0, 0, 0>>, <<0, 100, 0, 0>> }

\* A query one column short of the index's width.
ShortQuerySet == { <<100, 0, 0>> }

KRange == 1..MaxK

(***************************************************************************)
(* Exact arithmetic helpers.                                               *)
(***************************************************************************)
Abs(x) == IF x < 0 THEN -x ELSE x

Sgn(x) == IF x < 0 THEN -1 ELSE IF x = 0 THEN 0 ELSE 1

Min(a, b) == IF a <= b THEN a ELSE b

RECURSIVE Gcd(_, _)
Gcd(a, b) == IF b = 0 THEN a ELSE Gcd(b, a % b)

RatBy(n, d, g) == [n |-> n \div g, d |-> d \div g]

\* n / d in lowest terms, d > 0
Rat(n, d) == RatBy(n, d, Gcd(Abs(n), d))

RatLess(a, b) == a.n * b.d < b.n * a.d

RatLeq(a, b) == a.n * b.d <= b.n * a.d

RatOne == [n |-> 1, d |-> 1]

RatZero == [n |-> 0, d |-> 1]

RECURSIVE SumTo(_, _)
SumTo(f, n) == IF n = 0 THEN 0 ELSE f[n] + SumTo(f, n - 1)

Dot(a, b) == SumTo([i \in 1..Len(a) |-> a[i] * b[i]], Len(a))

SeqRange(s) == { s[i] : i \in 1..Len(s) }

SubSeqTo(s, n) == [i \in 1..Min(n, Len(s)) |-> s[i]]

(***************************************************************************)
(* Vectors as numpy float32 rows and the FAISS primitives the service      *)
(* calls (faiss.normalize_L2, IndexFlatIP / IndexFlatL2 .add and .search). *)
(***************************************************************************)
\* ndarray.astype(np.float32) of a raw embedding
AsFloat32(raw) == [v |-> raw, nsq |-> 1]

\* Normalize_L2 changed to leave every row as it is
Normalize_L2_Skip(x) == x

\* faiss.normalize_L2 on one row: a row of norm 0 is left as it is
Normalize_L2(x) ==
    LET n2 == Dot(x.v, x.v)
    IN IF n2 = 0 THEN x ELSE [v |-> x.v, nsq |-> n2]

\* inner product of two rows (IndexFlatIP), held as sign(c) * c^2
InnerProduct(x, y) ==
    LET p == Dot(x.v, y.v)
    IN Rat(Sgn(p) * p * p, x.nsq * y.nsq)

\* squared L2 distance of two unnormalised rows (IndexFlatL2)
L2Sqr(x, y) ==
    LET diff == [i \in 1..Len(x.v) |-> x.v[i] - y.v[i]]
    IN Rat(Dot(diff, diff), 1)

FaissScore(metric, x, q) ==
    IF metric = "cosine" THEN InnerProduct(x, q) ELSE L2Sqr(x, q)

\* FaissBetter changed to rank smaller values first for both index types
FaissBetterAscending(metric, a, b) == RatLess(a, b)

\* strictly better for the active index type: larger inner product, smaller distance
FaissBetter(metric, a, b) ==
    IF metric = "cosine" THEN RatLess(b, a) ELSE RatLess(a, b)

\* rows of equal score: the build returns them lowest row first or highest row first
FaissTieBefore(ties, i, j) ==
    IF ties = "low_first" THEN i < j ELSE i > j

\* the place of every row in the best-first order of the scores
FaissRank(metric, score, ties) ==
    LET n == Len(score)
        Before(i, j) ==
            \/ FaissBetter(metric, score[i], score[j])
            \/ score[i] = score[j] /\ FaissTieBefore(ties, i, j)
    IN [i \in 1..n |-> Cardinality({ j \in 1..n : Before(j, i) }) + 1]

FaissLabels(rank, k) ==
    [r \in 1..k |-> CHOOSE i \in 1..Len(rank) : rank[i] = r]

FaissResult(score, labels) ==
    [labels |-> labels, distances |-> [r \in 1..Len(labels) |-> score[labels[r]]]]

\* index.search(query, k) for one query row, 1 <= k <= ntotal: the k best rows,
\* best first, as [labels, distances]
FaissSearch(metric, index, q, k, ties) ==
    LET score == [i \in 1..Len(index) |-> FaissScore(metric, index[i], q)]
    IN FaissResult(score, FaissLabels(FaissRank(metric, score, ties), k))

(***************************************************************************)
(* KNNService (knn_service.py).                                            *)
(***************************************************************************)
\* KNNService.__init__
KNNService(embedding_dim, metric) ==
    [embedding_dim |-> embedding_dim, metric |-> metric,
     index |-> << >>, embeddings |-> None, ids |-> << >>]

\* index.ntotal
NTotal(svc) == Len(svc.index)

\* add_embeddings changed to skip the check of the row width
add_embeddings_unchecked(svc, rows, ids) ==
    LET f32 == [i \in 1..Len(rows) |-> AsFloat32(rows[i])]
        emb == IF svc.metric = "cosine"
               THEN [i \in 1..Len(rows) |-> Normalize_L2(f32[i])]
               ELSE f32
    IN [status |-> "ok",
        svc |-> [svc EXCEPT
                   !.index = @ \o emb,
                   !.ids = @ \o ids,
                   !.embeddings = IF @ = None THEN emb ELSE @ \o emb]]

\* add_embeddings changed to put the new identifiers in front of the list
add_embeddings_prepend(svc, rows, ids) ==
    IF Len(rows[1]) # svc.embedding_dim
    THEN [status |-> "ValueError", svc |-> svc]
    ELSE LET f32 == [i \in 1..Len(rows) |-> AsFloat32(rows[i])]
             emb == IF svc.metric = "cosine"
                    THEN [i \in 1..Len(rows) |-> Normalize_L2(f32[i])]
                    ELSE f32
         IN [status |-> "ok",
             svc |-> [svc EXCEPT
                        !.index = @ \o emb,
                        !.ids = ids \o @,
                        !.embeddings = IF @ = None THEN emb ELSE @ \o emb]]

\* KNNService.add_embeddings: rows is a non-empty batch of raw rows of one width
add_embeddings(svc, rows, ids) ==
    IF Len(rows[1]) # svc.embedding_dim
    THEN [status |-> "ValueError", svc |-> svc]
    ELSE LET f32 == [i \in 1..Len(rows) |-> AsFloat32(rows[i])]
             emb == IF svc.metric = "cosine"
                    THEN [i \in 1..Len(rows) |-> Normalize_L2(f32[i])]
                    ELSE f32
         IN [status |-> "ok",
             svc |-> [svc EXCEPT
                        !.index = @ \o emb,
                        !.ids = @ \o ids,
                        !.embeddings = IF @ = None THEN emb ELSE @ \o emb]]

\* "Convert to lists": the identifiers at the returned labels, and the distances
RowResult(ids, res) ==
    [ids |-> [r \in 1..Len(res.labels) |-> ids[res.labels[r]]],
     distances |-> res.distances]

\* SearchRow changed to pass k unclamped: FAISS pads the rows it cannot fill
\* with label -1, and ids[-1] is the last identifier
SearchRowNoClamp(svc, row, k, ties) ==
    LET query == IF svc.metric = "cosine" THEN Normalize_L2(row) ELSE row
        kk == Min(k, NTotal(svc))
        PadTo(r) ==
            [ids |-> [i \in 1..k |->
                        IF i <= kk THEN r.ids[i] ELSE svc.ids[Len(svc.ids)]],
             distances |-> [i \in 1..k |->
                        IF i <= kk THEN r.distances[i] ELSE Rat(-1, 1)]]
    IN PadTo(RowResult(svc.ids, FaissSearch(svc.metric, svc.index, query, kk, ties)))

\* the body of search / of one row of search_batch once ntotal > 0
SearchRow(svc, row, k, ties) ==
    LET query == IF svc.metric = "cosine" THEN Normalize_L2(row) ELSE row
        kk == Min(k, NTotal(svc))
    IN RowResult(svc.ids, FaissSearch(svc.metric, svc.index, query, kk, ties))

\* KNNService.search: (neighbor_ids, neighbor_distances)
search(svc, query_embedding, k, ties) ==
    IF NTotal(svc) = 0
    THEN [ids |-> << >>, distances |-> << >>]
    ELSE SearchRow(svc, AsFloat32(query_embedding), k, ties)

\* KNNService.search_batch: one [ids, distances] per query row
search_batch(svc, queries, k, ties) ==
    IF NTotal(svc) = 0
    THEN [i \in 1..Len(queries) |-> [ids |-> << >>, distances |-> << >>]]
    ELSE [i \in 1..Len(queries) |-> SearchRow(svc, queries[i], k, ties)]

\* EdgeWeight changed to carry the returned distance for either metric
EdgeWeightRaw(metric, distance) == distance

\* the edge weight of a returned distance
EdgeWeight(metric, distance) ==
    IF metric = "cosine" THEN distance ELSE Rat(distance.d, distance.d + distance.n)

\* NodeNeighbors changed to keep the node itself among its neighbours
NodeNeighborsKeepSelf(metric, node_id, row, k) ==
    LET pairs == [j \in 1..Len(row.ids) |->
                    [target |-> row.ids[j],
                     weight |-> EdgeWeight(metric, row.distances[j])]]
    IN SubSeqTo(pairs, k)

\* NodeNeighbors changed to drop the final cut to k
NodeNeighborsNoCut(metric, node_id, row, k) ==
    LET pairs == [j \in 1..Len(row.ids) |->
                    [target |-> row.ids[j],
                     weight |-> EdgeWeight(metric, row.distances[j])]]
        NotSelf(e) == e.target # node_id
    IN SelectSeq(pairs, NotSelf)

\* the inner loop of build_knn_graph for one node: the row's results without
\* the node itself, converted to edges, cut to k
NodeNeighbors(metric, node_id, row, k) ==
    LET pairs == [j \in 1..Len(row.ids) |->
                    [target |-> row.ids[j],
                     weight |-> EdgeWeight(metric, row.distances[j])]]
        NotSelf(e) == e.target # node_id
    IN SubSeqTo(SelectSeq(pairs, NotSelf), k)

\* graph[node_id] = value on a dict that keeps insertion order
DictSet(graph, node_id, value) ==
    IF \E i \in 1..Len(graph) : graph[i].node = node_id
    THEN [i \in 1..Len(graph) |->
            IF graph[i].node = node_id
            THEN [node |-> node_id, neighbors |-> value] ELSE graph[i]]
    ELSE Append(graph, [node |-> node_id, neighbors |-> value])

RECURSIVE GraphLoop(_, _, _, _, _)
GraphLoop(svc, rows, k, i, graph) ==
    IF i > Len(svc.ids) THEN graph
    ELSE GraphLoop(svc, rows, k, i + 1,
                   DictSet(graph, svc.ids[i],
                           NodeNeighbors(svc.metric, svc.ids[i], rows[i], k)))

\* KNNService.build_knn_graph: the dict node_id -> neighbours, in insertion order
build_knn_graph(svc, k, ties) ==
    IF svc.embeddings = None \/ Len(svc.ids) = 0
    THEN << >>
    ELSE GraphLoop(svc, search_batch(svc, svc.embeddings, k + 1, ties), k, 1, << >>)

\* the edge list save_graph derives from the graph
RECURSIVE GraphEdges(_, _)
GraphEdges(graph, i) ==
    IF i > Len(graph) THEN << >>
    ELSE [j \in 1..Len(graph[i].neighbors) |->
            [source |-> graph[i].node,
             target |-> graph[i].neighbors[j].target,
             weight |-> graph[i].neighbors[j].weight]]
         \o GraphEdges(graph, i + 1)

\* KNNService.save_graph: the document written to `path`
GraphDocument(graph, edges) ==
    [k |-> IF graph # << >> THEN Len(graph[1].neighbors) ELSE 0,
     num_nodes |-> Len(graph),
     num_edges |-> Len(edges),
     edges |-> edges]

save_graph(graph) == GraphDocument(graph, GraphEdges(graph, 1))

(***************************************************************************)
(* UMAPService (umap_service.py).                                          *)
(***************************************************************************)
SetMin(S) == CHOOSE x \in S : \A y \in S : x <= y

SetMax(S) == CHOOSE x \in S : \A y \in S : x >= y

\* UMAPService.get_bounds: per-axis minimum and maximum
get_bounds(coords) ==
    [min_vals |-> [a \in 1..3 |-> SetMin({ coords[i][a] : i \in 1..Len(coords) })],
     max_vals |-> [a \in 1..3 |-> SetMax({ coords[i][a] : i \in 1..Len(coords) })]]

\* NormalizeWith changed to divide every axis by its own range
NormalizeWithPerAxis(coords, b, max_range, scale) ==
    [i \in 1..Len(coords) |->
       [a \in 1..3 |->
          LET centered2 == 2 * coords[i][a] - (b.min_vals[a] + b.max_vals[a])
              axis_range == b.max_vals[a] - b.min_vals[a]
          IN IF axis_range > 0
             THEN Rat(centered2 * scale, axis_range)
             ELSE Rat(centered2, 2)]]

\* NormalizeWith changed to return a batch of zero range as it was given
NormalizeWithNoCentre(coords, b, max_range, scale) ==
    [i \in 1..Len(coords) |->
       [a \in 1..3 |->
          LET centered2 == 2 * coords[i][a] - (b.min_vals[a] + b.max_vals[a])
          IN IF max_range > 0
             THEN Rat(centered2 * scale, max_range)
             ELSE Rat(coords[i][a], 1)]]

NormalizeWith(coords, b, max_range, scale) ==
    [i \in 1..Len(coords) |->
       [a \in 1..3 |->
          \* twice the centred coordinate: 2 * (c - (min + max) / 2)
          LET centered2 == 2 * coords[i][a] - (b.min_vals[a] + b.max_vals[a])
          IN IF max_range > 0
             THEN Rat(centered2 * scale, max_range)
             ELSE Rat(centered2, 2)]]

BoundsRange(b) == SetMax({ b.max_vals[a] - b.min_vals[a] : a \in 1..3 })

NormalizeIn(coords, b, scale) == NormalizeWith(coords, b, BoundsRange(b), scale)

\* UMAPService.normalize_coords on integer raw coordinates
normalize_coords(coords, scale) == NormalizeIn(coords, get_bounds(coords), scale)

\* What the external projector (UMAP.fit_transform) can return for n rows: the
\* corners of a 2 x 2 x 0 box taken in turn, or one point for every row.
BoxCorner(i) ==
    << 2 * ((i - 1) % 2), 2 * (((i - 1) \div 2) % 2), 0 >>

ProjectorOutputs(n) ==
    { [i \in 1..n |-> BoxCorner(i)], [i \in 1..n |-> <<1, 1, 1>>] }

(***************************************************************************)
(* app.py: the shared state and the request handlers.                      *)
(***************************************************************************)
Metrics == { "cosine", "euclidean" }

TieOrders == { "low_first", "high_first" }

NoFile == [state |-> "absent", doc |-> << >>]

PartialFile == [state |-> "partial", doc |-> << >>]

FileOf(doc) == [state |-> "ok", doc |-> doc]

\* list(image_database.keys())
StoreIds(db) == [i \in 1..Len(db) |-> db[i].id]

\* what the request or call that ran last answered: the handler or method (op),
\* its HTTP status or outcome, its inputs (k, q), what it returned (ids,
\* distances, results, graph, n), and for project_to_3d whether fit_transform
\* was called (projector) and where it raised (stage)
Response(op, status) ==
    [op |-> op, status |-> status, k |-> 0, q |-> << >>, ids |-> << >>,
     distances |-> << >>, results |-> << >>, graph |-> << >>, n |-> 0,
     projector |-> FALSE, stage |-> ""]

\* startup_event: empty store, flag false, a fresh cosine KNNService, empty
\* data directory
Init ==
    /\ image_database = << >>
    /\ is_projection_fitted = FALSE
    /\ knn = KNNService(EmbeddingDim, "cosine")
    /\ faiss_ties \in TieOrders
    /\ coords_file = NoFile
    /\ graph_file = NoFile
    /\ inflight = 0
    /\ boots = 0
    /\ last = Response("startup", "200")

\* upload_image up to its only suspension point, `await file.read()`
UploadBegin ==
    /\ inflight < MaxInflight
    /\ Len(image_database) + inflight < MaxImages
    /\ inflight' = inflight + 1
    /\ last' = Response("upload", "reading")
    /\ UNCHANGED <<image_database, is_projection_fitted, knn, faiss_ties, boots,
                   coords_file, graph_file>>

\* upload_image: Image.open, image.save or embed_image raises; the handler
\* answers 500 before it touched the store
UploadFail ==
    /\ inflight > 0
    /\ inflight' = inflight - 1
    /\ last' = Response("upload", "500")
    /\ UNCHANGED <<image_database, is_projection_fitted, knn, faiss_ties, boots,
                   coords_file, graph_file>>

\* NewImageId changed to hand out the same identifier every time
NewImageIdFixed(db, boot) == 1

\* str(uuid.uuid4()): an identifier that no record of the store carries and
\* that no earlier run of the process handed out, named by the run and the
\* order of arrival
NewImageId(db, boot) == boot * MaxImages + Len(db) + 1

\* image_database[rec.id] = rec on a dict that keeps insertion order
StorePut(db, rec) ==
    IF \E i \in 1..Len(db) : db[i].id = rec.id
    THEN [i \in 1..Len(db) |-> IF db[i].id = rec.id THEN rec ELSE db[i]]
    ELSE Append(db, rec)

\* UploadCommit changed to write the store and leave the index alone
UploadCommitStoreOnly(db, svc, image_id, embedding) ==
    [db |-> Append(db, [id |-> image_id, embedding |-> embedding, coords |-> None]),
     svc |-> svc, status |-> "ok"]

\* upload_image, "Store in database" and "Add to kNN index": one run of the
\* event loop with no await in it
UploadCommit(db, svc, image_id, embedding) ==
    LET db2 == StorePut(db, [id |-> image_id, embedding |-> embedding, coords |-> None])
        added == add_embeddings(svc, << embedding >>, << image_id >>)
    IN [db |-> db2, svc |-> added.svc, status |-> added.status]

\* upload_image after the read resumed, for an image the extractor embeds
UploadFinish(embedding) ==
    /\ inflight > 0
    /\ LET image_id == NewImageId(image_database, boots)
           c == UploadCommit(image_database, knn, image_id, embedding)
       IN /\ image_database' = c.db
          /\ knn' = c.svc
          /\ last' = [Response("upload", IF c.status = "ok" THEN "200" ELSE "500")
                        EXCEPT !.ids = << image_id >>]
    /\ inflight' = inflight - 1
    /\ UNCHANGED <<is_projection_fitted, faiss_ties, boots, coords_file, graph_file>>

\* ProjectTooFew changed to let a single image through
ProjectTooFewOne(db) == Len(db) < 1

\* project_to_3d: `if len(image_database) < 2`
ProjectTooFew(db) == Len(db) < 2

\* project_to_3d with fewer than 2 images: 400 before the try block
ProjectReject ==
    /\ ProjectTooFew(image_database)
    /\ last' = Response("project", "400")
    /\ UNCHANGED <<image_database, is_projection_fitted, knn, faiss_ties, boots,
                   coords_file, graph_file, inflight>>

\* project_to_3d: the projector raises; nothing was written yet
ProjectFitFail ==
    /\ ~ProjectTooFew(image_database)
    /\ last' = [Response("project", "500") EXCEPT !.stage = "fit_transform", !.projector = TRUE]
    /\ UNCHANGED <<image_database, is_projection_fitted, knn, faiss_ties, boots,
                   coords_file, graph_file, inflight>>

\* StoreCoordinates changed to start the write-back at the second row
StoreCoordinatesSkipFirst(db, coords_normalized) ==
    [i \in 1..Len(db) |->
       IF i = 1 THEN db[i] ELSE [db[i] EXCEPT !.coords = coords_normalized[i]]]

\* project_to_3d, "Store coordinates": coords of row i go to image_ids[i]
StoreCoordinates(db, coords_normalized) ==
    [i \in 1..Len(db) |-> [db[i] EXCEPT !.coords = coords_normalized[i]]]

\* the coordinate document project_to_3d dumps
CoordsData(db, coords_normalized) ==
    [i \in 1..Len(db) |->
       [id |-> db[i].id, x |-> coords_normalized[i][1],
        y |-> coords_normalized[i][2], z |-> coords_normalized[i][3]]]

\* project_to_3d: coordinates stored, flag set, then json.dump raises on the
\* file it has just opened for writing, which is left truncated
ProjectPersistFail ==
    /\ ~ProjectTooFew(image_database)
    /\ \E raw \in ProjectorOutputs(Len(image_database)) :
         image_database' = StoreCoordinates(image_database, normalize_coords(raw, Scale))
    /\ coords_file' = PartialFile
    /\ is_projection_fitted' = TRUE
    /\ last' = [Response("project", "500") EXCEPT !.stage = "dump", !.projector = TRUE]
    /\ UNCHANGED <<knn, faiss_ties, boots, graph_file, inflight>>

\* project_to_3d running to its return
ProjectOk ==
    /\ ~ProjectTooFew(image_database)
    /\ \E raw \in ProjectorOutputs(Len(image_database)) :
         LET coords_normalized == normalize_coords(raw, Scale)
         IN /\ image_database' = StoreCoordinates(image_database, coords_normalized)
            /\ coords_file' = FileOf(CoordsData(image_database, coords_normalized))
    /\ is_projection_fitted' = TRUE
    /\ last' = [Response("project", "200") EXCEPT !.n = Len(image_database), !.projector = TRUE]
    /\ UNCHANGED <<knn, faiss_ties, boots, graph_file, inflight>>

\* GraphTooFew changed to let a single image through
GraphTooFewOne(db) == Len(db) < 1

\* build_graph: `if len(image_database) < 2`
GraphTooFew(db) == Len(db) < 2

\* build_graph (POST /graph) with fewer than 2 images: 400 before the try block
BuildGraphReject ==
    /\ GraphTooFew(image_database)
    /\ last' = Response("graph", "400")
    /\ UNCHANGED <<image_database, is_projection_fitted, knn, faiss_ties, boots,
                   coords_file, graph_file, inflight>>

\* build_graph (POST /graph): build, save, answer with the node count
BuildGraph(k) ==
    /\ ~GraphTooFew(image_database)
    /\ LET graph == build_knn_graph(knn, k, faiss_ties)
       IN /\ graph_file' = FileOf(save_graph(graph))
          /\ last' = [Response("graph", "200") EXCEPT !.k = k, !.n = Len(graph)]
    /\ UNCHANGED <<image_database, is_projection_fitted, knn, faiss_ties, boots,
                   coords_file, inflight>>

\* KnnBuildGraph changed to release the embeddings array once the graph is built
KnnBuildGraphConsuming(k) ==
    /\ last' = [Response("build_knn_graph", "returned")
                  EXCEPT !.k = k, !.graph = build_knn_graph(knn, k, faiss_ties)]
    /\ knn' = [knn EXCEPT !.embeddings = None]
    /\ UNCHANGED <<image_database, is_projection_fitted, faiss_ties, boots,
                   coords_file, graph_file, inflight>>

\* a direct call of KNNService.build_knn_graph, which returns the graph
KnnBuildGraph(k) ==
    /\ last' = [Response("build_knn_graph", "returned")
                  EXCEPT !.k = k, !.graph = build_knn_graph(knn, k, faiss_ties)]
    /\ UNCHANGED <<image_database, is_projection_fitted, knn, faiss_ties, boots,
                   coords_file, graph_file, inflight>>

\* search_by_text / search_by_image: KNNService.search on the query's embedding,
\* then one result per returned id that the store holds
Search(query, k) ==
    /\ LET found == search(knn, query, k, faiss_ties)
           InStore(id) == \E i \in 1..Len(image_database) : image_database[i].id = id
       IN last' = [Response("search", "200") EXCEPT
                     !.k = k, !.q = query,
                     !.ids = found.ids, !.distances = found.distances,
                     !.results = SelectSeq(found.ids, InStore)]
    /\ UNCHANGED <<image_database, is_projection_fitted, knn, faiss_ties, boots,
                   coords_file, graph_file, inflight>>

\* how a call of KNNService.search ends: on an empty index it returns at once;
\* otherwise index.search refuses a query whose width is not the index's
\* (the FAISS wrapper's `assert d == self.d`)
search_outcome(svc, query_embedding) ==
    IF NTotal(svc) = 0 THEN "returned"
    ELSE IF Len(query_embedding) # svc.embedding_dim THEN "AssertionError"
    ELSE "returned"

\* a direct call of KNNService.search
KnnSearch(query, k) ==
    /\ LET outcome == search_outcome(knn, query)
           found == IF outcome = "returned"
                    THEN search(knn, query, k, faiss_ties)
                    ELSE [ids |-> << >>, distances |-> << >>]
       IN last' = [Response("knn_search", outcome) EXCEPT
                     !.k = k, !.q = query,
                     !.ids = found.ids, !.distances = found.distances]
    /\ UNCHANGED <<image_database, is_projection_fitted, knn, faiss_ties, boots,
                   coords_file, graph_file, inflight>>

\* a direct call of KNNService.add_embeddings with one row and a new identifier
KnnAdd(embedding) ==
    /\ Len(knn.ids) < MaxImages
    /\ LET added == add_embeddings(knn, << embedding >>, << Len(knn.ids) + 1 >>)
       IN /\ knn' = added.svc
          /\ last' = Response("add_embeddings", added.status)
    /\ UNCHANGED <<image_database, is_projection_fitted, faiss_ties, boots,
                   coords_file, graph_file, inflight>>

\* the server process is stopped and started again: the module globals and
\* startup_event run anew, the files under DATA_DIR stay as they are
Restart ==
    /\ boots < MaxBoots
    /\ boots' = boots + 1
    /\ image_database' = << >>
    /\ is_projection_fitted' = FALSE
    /\ knn' = KNNService(EmbeddingDim, "cosine")
    /\ inflight' = 0
    /\ last' = Response("startup", "200")
    /\ UNCHANGED <<faiss_ties, coords_file, graph_file>>

\* json.load of a file of DATA_DIR that exists
Loadable(file) == file.state # "partial"

\* the ids of the points of coords.json, {} when the file does not exist
CoordsIds(file) ==
    IF file.state = "ok" THEN [i \in 1..Len(file.doc) |-> file.doc[i].id] ELSE << >>

\* the edges of graph.json, {} when the file does not exist
GraphFileEdges(file) == IF file.state = "ok" THEN file.doc.edges ELSE << >>

\* export_data (GET /data/export): meta from the store (results), coords.json
\* (ids) and graph.json (graph) as they are found on disk
Export ==
    /\ last' = IF Loadable(coords_file) /\ Loadable(graph_file)
               THEN [Response("export", "200") EXCEPT
                       !.results = StoreIds(image_database),
                       !.ids = CoordsIds(coords_file),
                       !.graph = GraphFileEdges(graph_file)]
               ELSE Response("export", "500")
    /\ UNCHANGED <<image_database, is_projection_fitted, knn, faiss_ties, boots,
                   coords_file, graph_file, inflight>>

(***************************************************************************)
(* Spec: the application, every handler of app.py that touches the shared  *)
(* state, interleaved at the handlers' await points.                       *)
(***************************************************************************)
Next ==
    \/ UploadBegin
    \/ UploadFail
    \/ \E e \in UploadSet : UploadFinish(e)
    \/ ProjectReject
    \/ ProjectFitFail
    \/ ProjectPersistFail
    \/ ProjectOk
    \/ BuildGraphReject
    \/ \E k \in KRange : BuildGraph(k)
    \/ KnnBuildGraph(MaxK)
    \/ \E q \in UploadSet : Search(q, MaxK)

Spec == Init /\ [][Next]_vars

(***************************************************************************)
(* SpecExport: ingest, projection, graph build, export and restarts of the *)
(* process.                                                                *)
(***************************************************************************)
NextExport ==
    \/ UploadBegin
    \/ \E e \in UploadSet : UploadFinish(e)
    \/ ProjectPersistFail
    \/ ProjectOk
    \/ BuildGraph(MaxK)
    \/ Restart
    \/ Export

SpecExport == Init /\ [][NextExport]_vars

(***************************************************************************)
(* SpecKnn: the KNNService on its own, for either metric, driven through   *)
(* its public methods.                                                     *)
(***************************************************************************)
InitKnn ==
    /\ image_database = << >>
    /\ is_projection_fitted = FALSE
    /\ \E m \in Metrics : knn = KNNService(EmbeddingDim, m)
    /\ faiss_ties \in TieOrders
    /\ coords_file = NoFile
    /\ graph_file = NoFile
    /\ inflight = 0
    /\ boots = 0
    /\ last = Response("startup", "200")

NextKnn ==
    \/ \E e \in EmbedSet : KnnAdd(e)
    \/ \E q \in EmbedSet \cup ShortQuerySet, k \in KRange : KnnSearch(q, k)
    \/ \E k \in KRange : KnnBuildGraph(k)

SpecKnn == InitKnn /\ [][NextKnn]_vars

(***************************************************************************)
(* SpecAdd: KNNService.add_embeddings on its own, called with batches of   *)
(* any width and with any number of identifiers.                           *)
(***************************************************************************)
\* rows of the index's width and rows one column short
AddRowSet == { <<100, 0, 0, 0>>, <<0, 100, 0, 0>>, <<100, 0, 0>> }

\* the 2-D arrays passed as `embeddings`: 1..MaxBatch rows of one width
AddBatches ==
    { rows \in UNION { [1..n -> AddRowSet] : n \in 1..MaxBatch } :
        \A i \in 1..Len(rows) : Len(rows[i]) = Len(rows[1]) }

InitAdd ==
    /\ image_database = << >>
    /\ is_projection_fitted = FALSE
    /\ \E m \in Metrics : knn = KNNService(EmbeddingDim, m)
    /\ faiss_ties = "low_first"
    /\ coords_file = NoFile
    /\ graph_file = NoFile
    /\ inflight = 0
    /\ boots = 0
    /\ last = Response("startup", "200")

\* a direct call of KNNService.add_embeddings(embeddings, ids) with num_ids new
\* identifiers
KnnAddBatch(rows, num_ids) ==
    /\ NTotal(knn) < MaxImages
    /\ Len(knn.ids) < MaxImages
    /\ LET ids == [j \in 1..num_ids |-> Len(knn.ids) + j]
           added == add_embeddings(knn, rows, ids)
       IN /\ knn' = added.svc
          /\ last' = [Response("add_embeddings", added.status)
                        EXCEPT !.q = rows, !.ids = ids]
    /\ UNCHANGED <<image_database, is_projection_fitted, faiss_ties, boots,
                   coords_file, graph_file, inflight>>

NextAdd == \E rows \in AddBatches, num_ids \in 1..MaxBatch : KnnAddBatch(rows, num_ids)

SpecAdd == InitAdd /\ [][NextAdd]_vars

(***************************************************************************)
(* ClaudeService.name_cluster (claude_service.py) and label_clusters.      *)
(* A string is a sequence of tokens; the text the label service answers    *)
(* with is made of the tokens below, a "pair" standing for one             *)
(* `"key": "value"` member of a JSON object.                               *)
(***************************************************************************)
LBrace == [kind |-> "{", key |-> "", value |-> ""]

RBrace == [kind |-> "}", key |-> "", value |-> ""]

Comma == [kind |-> ",", key |-> "", value |-> ""]

Prose == [kind |-> "prose", key |-> "", value |-> ""]

Pair(key, value) == [kind |-> "pair", key |-> key, value |-> value]

\* what _invoke_claude returns: None (no client, ClientError, any exception)
\* or the text of the first content block
NoReply == [kind |-> "none", text |-> << >>]

TextReply(text) == [kind |-> "text", text |-> text]

ReplyTexts ==
    { << >>,
      << Prose >>,
      << LBrace, Pair("title", "T"), Comma, Pair("description", "D"), RBrace >>,
      << Prose, LBrace, Pair("title", "T"), Comma, Pair("description", "D"),
         RBrace, Prose >>,
      << LBrace, Pair("title", "T"), RBrace >>,
      << LBrace, Pair("name", "N"), Comma, Pair("summary", "S"), RBrace >>,
      << LBrace, RBrace >>,
      << LBrace, Pair("title", "T"), Comma, RBrace >>,
      << LBrace, Prose, RBrace >>,
      << RBrace, Prose, LBrace >>,
      << LBrace, Pair("title", "T") >>,
      << LBrace, Pair("title", "T"), RBrace, Prose,
         LBrace, Pair("description", "D"), RBrace >> }

InvokeOutcomes == { NoReply } \cup { TextReply(t) : t \in ReplyTexts }

\* the `name` entries of the top_objects lists passed to name_cluster
NameSet == { "cat", "dog" }

Descriptors == UNION { [1..n -> NameSet] : n \in 0..MaxDescriptors }

\* response.find('{') + 1: the first position of an opening brace, 0 if none
FindLBrace(text) ==
    IF \E i \in 1..Len(text) : text[i] = LBrace
    THEN CHOOSE i \in 1..Len(text) :
            text[i] = LBrace /\ \A j \in 1..(i - 1) : text[j] # LBrace
    ELSE 0

\* response.rfind('}') + 1: the last position of a closing brace, 0 if none
RFindRBrace(text) ==
    IF \E i \in 1..Len(text) : text[i] = RBrace
    THEN CHOOSE i \in 1..Len(text) :
            text[i] = RBrace /\ \A j \in (i + 1)..Len(text) : text[j] # RBrace
    ELSE 0

\* json.loads accepts a slice that starts with `{` and ends with `}`: its
\* inside is empty or members separated by commas
JsonDecodes(slice) ==
    LET inner == Len(slice) - 2
    IN /\ inner = 0 \/ inner % 2 = 1
       /\ \A i \in 1..inner :
             IF i % 2 = 1 THEN slice[i + 1].kind = "pair" ELSE slice[i + 1] = Comma

\* the dict json.loads builds, as the list of its items
JsonObject(slice) ==
    LET IsPair(tok) == tok.kind = "pair"
        members == SelectSeq(slice, IsPair)
    IN [i \in 1..Len(members) |->
          [key |-> members[i].key, value |-> << members[i].value >>]]

\* ", ".join(names)
RECURSIVE Join(_)
Join(names) ==
    IF Len(names) = 0 THEN << >>
    ELSE IF Len(names) = 1 THEN << names[1] >>
    ELSE << names[1], ", " >> \o Join(Tail(names))

FallbackLabelOf(joined) ==
    << [key |-> "title", value |-> << "Cluster: " >> \o joined],
       [key |-> "description",
        value |-> << "Images featuring " >> \o joined \o << "." >>] >>

\* name_cluster, "# Fallback"
FallbackLabel(top_objects) == FallbackLabelOf(Join(SubSeqTo(top_objects, 3)))

ParseOrFallback(top_objects, text, start, end) ==
    IF start >= 1 /\ end > start - 1 /\ JsonDecodes(SubSeq(text, start, end))
    THEN JsonObject(SubSeq(text, start, end))
    ELSE FallbackLabel(top_objects)

\* ClaudeService.name_cluster once _invoke_claude has answered `response`
name_cluster(top_objects, response) ==
    IF response.kind = "text" /\ Len(response.text) > 0
    THEN ParseOrFallback(top_objects, response.text,
                         FindLBrace(response.text), RFindRBrace(response.text))
    ELSE FallbackLabel(top_objects)

\* dict lookup
HasKey(dict, key) == \E i \in 1..Len(dict) : dict[i].key = key

\* a direct call of ClaudeService.name_cluster
NameCluster(top_objects, response) ==
    /\ last' = [Response("name_cluster", "returned")
                  EXCEPT !.q = top_objects, !.results = << response >>,
                         !.graph = name_cluster(top_objects, response)]
    /\ UNCHANGED <<image_database, is_projection_fitted, knn, faiss_ties, boots,
                   coords_file, graph_file, inflight>>

\* label_clusters (POST /clusters/label) for one cluster id: name_cluster on
\* the fixed descriptor "example", then cluster_label["title"] and
\* cluster_label["description"]; a missing key ends in 500
LabelClusters(response) ==
    /\ LET cluster_label == name_cluster(<< "example" >>, response)
       IN last' = [Response("label_clusters",
                            IF HasKey(cluster_label, "title")
                               /\ HasKey(cluster_label, "description")
                            THEN "200" ELSE "500")
                     EXCEPT !.q = << "example" >>, !.results = << response >>,
                            !.graph = cluster_label]
    /\ UNCHANGED <<image_database, is_projection_fitted, knn, faiss_ties, boots,
                   coords_file, graph_file, inflight>>

NextLabel ==
    \/ \E top_objects \in Descriptors, response \in InvokeOutcomes :
          NameCluster(top_objects, response)
    \/ \E response \in InvokeOutcomes : LabelClusters(response)

SpecLabel == Init /\ [][NextLabel]_vars

(***************************************************************************)
(* SpecNorm: UMAPService.normalize_coords on its own, applied to a batch   *)
(* the projector returned.                                                 *)
(***************************************************************************)
\* the points a projected batch is made of
PointSet ==
    { <<0, 0, 0>>, <<2, 0, 0>>, <<0, 2, 0>>, <<2, 2, 0>>, <<1, 1, 1>>, <<-3, 0, 1>> }

\* the values of the `scale` parameter: its default and the one app.py passes
ScaleSet == { 1, Scale }

\* fit_transform has returned a batch; normalize_coords is about to be called
InitNorm ==
    /\ image_database = << >>
    /\ is_projection_fitted = FALSE
    /\ knn = KNNService(EmbeddingDim, "cosine")
    /\ faiss_ties = "low_first"
    /\ coords_file = NoFile
    /\ graph_file = NoFile
    /\ inflight = 0
    /\ boots = 0
    /\ \E n \in 1..MaxPoints, scale \in ScaleSet :
          \E coords \in [1..n -> PointSet] :
             last = [Response("fit_transform", "returned")
                       EXCEPT !.results = coords, !.k = scale]

\* a call of UMAPService.normalize_coords(coords, scale)
NormalizeCoords ==
    /\ last.op = "fit_transform"
    /\ last' = [Response("normalize_coords", "returned")
                  EXCEPT !.q = last.results, !.k = last.k,
                         !.results = normalize_coords(last.results, last.k)]
    /\ UNCHANGED <<image_database, is_projection_fitted, knn, faiss_ties, boots,
                   coords_file, graph_file, inflight>>

NextNorm == NormalizeCoords

SpecNorm == InitNorm /\ [][NextNorm]_vars

(***************************************************************************)
(* Properties.                                                             *)
(***************************************************************************)
HasId(seq, id) == \E i \in 1..Len(seq) : seq[i] = id

\* C1: after any sequence of uploads, successful or failed, the index holds as
\* many entries as the store holds records (len(knn.ids) = index.ntotal =
\* len(image_database)) and knn.ids is the store's identifiers in insertion order.
C1_IndexMatchesStore ==
    /\ Len(knn.ids) = NTotal(knn)
    /\ NTotal(knn) = Len(image_database)
    /\ knn.ids = StoreIds(image_database)

\* C1 witness: an upload has just failed after two others succeeded.
C1_Witness ==
    /\ last.op = "upload"
    /\ last.status = "500"
    /\ Len(image_database) >= 2

\* C2: in every state a request can run in, whatever uploads are suspended at
\* their await, an identifier has a store record exactly if it has an index
\* entry, and no search found an index identifier missing from the store.
C2_NoTornPair ==
    /\ \A id \in SeqRange(knn.ids) : HasId(StoreIds(image_database), id)
    /\ \A id \in SeqRange(StoreIds(image_database)) : HasId(knn.ids, id)
    /\ last.op = "search" => last.results = last.ids

\* C2 witness: a search returned identifiers while one upload had completed and
\* two more were suspended at the await.
C2_Witness ==
    /\ inflight = 2
    /\ last.op = "search"
    /\ last.ids # << >>

\* C3: the graph build_knn_graph(k) returns has no edge whose target is the
\* node that owns it, identical stored vectors included.
C3_NoSelfLoop ==
    last.op = "build_knn_graph" =>
        \A i \in 1..Len(last.graph) :
            \A j \in 1..Len(last.graph[i].neighbors) :
                last.graph[i].neighbors[j].target # last.graph[i].node

\* C3 witness: a graph with edges was built over an index holding the same
\* vector twice.
C3_Witness ==
    /\ last.op = "build_knn_graph"
    /\ Len(knn.index) >= 2
    /\ \E i, j \in 1..Len(knn.index) : i # j /\ knn.index[i] = knn.index[j]
    /\ \E i \in 1..Len(last.graph) : last.graph[i].neighbors # << >>

\* the identifiers of the index are pairwise distinct
DistinctIds(ids) == \A i, j \in 1..Len(ids) : ids[i] = ids[j] => i = j

\* C4: with n distinct identifiers, build_knn_graph(k) gives every node exactly
\* k edges when n >= k + 1 and exactly n - 1 edges when n < k + 1, also when the
\* node is not among the k + 1 results of its own query.
C4_OutDegree ==
    (last.op = "build_knn_graph" /\ DistinctIds(knn.ids)) =>
        /\ Len(last.graph) = Len(knn.ids)
        /\ \A i \in 1..Len(last.graph) :
              Len(last.graph[i].neighbors) =
                  IF Len(knn.ids) >= last.k + 1 THEN last.k ELSE Len(knn.ids) - 1

\* C4 witness: a graph was built in which some node's own identifier is not
\* among the k + 1 results of its self-query.
C4_Witness ==
    /\ last.op = "build_knn_graph"
    /\ Len(knn.ids) >= last.k + 1
    /\ \E i \in 1..Len(knn.ids) :
          ~HasId(SearchRow(knn, knn.embeddings[i], last.k + 1, faiss_ties).ids,
                 knn.ids[i])

\* C5: search returns only identifiers that were added to the index, at most
\* min(k, index size) of them, and nothing on an empty index.
C5_SearchBounded ==
    last.op = "knn_search" =>
        /\ \A r \in 1..Len(last.ids) : HasId(knn.ids, last.ids[r])
        /\ Len(last.ids) <= Min(last.k, NTotal(knn))
        /\ Len(last.distances) = Len(last.ids)
        /\ NTotal(knn) = 0 => last.ids = << >>

\* C5 witness: a search asked for more neighbours than the non-empty index holds.
C5_Witness ==
    /\ last.op = "knn_search"
    /\ NTotal(knn) >= 1
    /\ last.k > NTotal(knn)
    /\ Len(last.ids) = NTotal(knn)

\* the coordinates of every record, in store order
StoreCoords(db) == [i \in 1..Len(db) |-> db[i].coords]

\* C6: a project_to_3d that aborts (answers 500), wherever it aborts, leaves the
\* fitted flag and every record's coordinates as they were before the call.
C6_AbortLeavesStateUntouched ==
    [][(last'.op = "project" /\ last'.status = "500") =>
          /\ is_projection_fitted' = is_projection_fitted
          /\ StoreCoords(image_database') = StoreCoords(image_database)]_vars

\* C7 as claimed: whenever the fitted flag is true every identifier in the
\* store has coordinates.
C7_FittedMeansAllProjected ==
    is_projection_fitted =>
        \A i \in 1..Len(image_database) : image_database[i].coords # None

\* C7 as amended: whenever the fitted flag is true, at least two records were
\* projected, and the records without coordinates are exactly those stored
\* after the latest projection wrote its coordinates (a suffix of the store).
C7_FittedMeansProjectedPrefix ==
    is_projection_fitted =>
        \E m \in 2..Len(image_database) :
            \A i \in 1..Len(image_database) :
                (image_database[i].coords # None) <=> (i <= m)

\* C7 witness: the flag is true and the newest record has no coordinates.
C7_Witness ==
    /\ is_projection_fitted
    /\ last.op = "upload"
    /\ last.status = "200"
    /\ image_database[Len(image_database)].coords = None

\* the failure statuses a request or call can end with
Failed(status) == status \in { "400", "500", "ValueError" }

\* C8 as claimed: with fewer than 2 vectors both POST /graph and
\* build_knn_graph fail, and no graph document is ever written for fewer than
\* 2 vectors.
C8_BothLevelsFail ==
    /\ (last.op \in { "graph", "build_knn_graph" } /\ Len(knn.ids) < 2)
          => Failed(last.status)
    /\ graph_file.state = "ok" => graph_file.doc.num_nodes >= 2

\* C8 as amended: POST /graph answers 400 exactly when the store holds fewer
\* than 2 records, and no graph document is ever written for fewer than 2
\* vectors; build_knn_graph itself does not fail on fewer than 2 vectors: it
\* returns the empty graph for none and the single node without edges for one.
C8_OrchestratorFailsBuilderReturns ==
    /\ last.op = "graph" =>
          (last.status = "400" <=> Len(image_database) < 2)
    /\ graph_file.state = "ok" => graph_file.doc.num_nodes >= 2
    /\ (last.op = "build_knn_graph" /\ Len(knn.ids) = 0) =>
          (last.status = "returned" /\ last.graph = << >>)
    /\ (last.op = "build_knn_graph" /\ Len(knn.ids) = 1) =>
          /\ last.status = "returned"
          /\ last.graph = << [node |-> knn.ids[1], neighbors |-> << >>] >>

\* C8 witness: POST /graph was refused with one record in the store and no
\* graph document on disk.
C8_Witness ==
    /\ last.op = "graph"
    /\ last.status = "400"
    /\ Len(image_database) = 1
    /\ graph_file = NoFile

\* C9: project_to_3d with fewer than 2 records answers 400 without calling the
\* projector and without changing any coordinate or the flag; a call that
\* answers 200 ran on 2 or more records, leaves every record of the store with
\* coordinates and the flag true.
C9_ProjectThreshold ==
    [][/\ (last'.op = "project" /\ Len(image_database) < 2) =>
             /\ last'.status = "400"
             /\ ~last'.projector
             /\ image_database' = image_database
             /\ is_projection_fitted' = is_projection_fitted
       /\ (last'.op = "project" /\ last'.status = "200") =>
             /\ Len(image_database) >= 2
             /\ last'.projector
             /\ StoreIds(image_database') = StoreIds(image_database)
             /\ \A i \in 1..Len(image_database') : image_database'[i].coords # None
             /\ is_projection_fitted']_vars

\* C9 witness: a projection over three records succeeded and wrote them all.
C9_Witness ==
    /\ last.op = "project"
    /\ last.status = "200"
    /\ Len(image_database) = 3
    /\ \A i \in 1..3 : image_database[i].coords # None

\* the scenario's stored vectors, in ingestion order
ScenarioRows == << <<100, 0, 0, 0>>, <<0, 100, 0, 0>>, <<100, 0, 1, 0>> >>

ScenarioSearch ==
    /\ last.op = "knn_search"
    /\ knn.metric = "cosine"
    /\ [i \in 1..Len(knn.index) |-> knn.index[i].v] = ScenarioRows
    /\ last.q = <<100, 0, 0, 0>>
    /\ last.k = 2

\* C10: search returns its results best first, non-increasing score for cosine
\* and non-decreasing distance for euclidean; on [1,0,0,0], [0,1,0,0],
\* [1,0,0.01,0] (cosine, here scaled by 100) search([1,0,0,0], 2) returns the
\* first then the third identifier, the third with a score below 1.
C10_BestFirst ==
    /\ last.op = "knn_search" =>
          \A r \in 1..(Len(last.distances) - 1) :
              IF knn.metric = "cosine"
              THEN RatLeq(last.distances[r + 1], last.distances[r])
              ELSE RatLeq(last.distances[r], last.distances[r + 1])
    /\ ScenarioSearch =>
          /\ last.ids = << knn.ids[1], knn.ids[3] >>
          /\ last.distances[1] = RatOne
          /\ RatLess(last.distances[2], RatOne)
          /\ RatLess(RatZero, last.distances[2])

\* C10 witness: the scenario's search has run.
C10_Witness == ScenarioSearch /\ Len(last.ids) = 2

\* a direct cosine search whose query is the raw vector of a stored row
SelfSearch ==
    /\ last.op = "knn_search"
    /\ last.status = "returned"
    /\ knn.metric = "cosine"
    /\ \E i \in 1..Len(knn.index) : knn.index[i].v = last.q

\* the cosine score of stored row j against the query of the last search
ScoreOfRow(j) == InnerProduct(knn.index[j], Normalize_L2(AsFloat32(last.q)))

\* C11 (as stated): for the cosine metric, a search for any stored vector v,
\* the zero vector and duplicated vectors included, returns v's identifier
\* first with score 1.
C11_SelfSearchReturnsSelf ==
    SelfSearch =>
        \A i \in 1..Len(knn.index) :
            knn.index[i].v = last.q =>
                /\ last.ids[1] = knn.ids[i]
                /\ last.distances[1] = RatOne

\* C11 (amended): for the cosine metric, a search for a stored nonzero vector
\* v returns first, with score 1, an identifier whose stored vector scores 1
\* against v, and that identifier is v's own when no other stored vector
\* scores 1; a search for a stored zero vector returns score 0 for every result.
C11_SelfSearchTopScoresOne ==
    SelfSearch =>
        IF Dot(last.q, last.q) = 0
        THEN \A r \in 1..Len(last.distances) : last.distances[r] = RatZero
        ELSE /\ last.distances[1] = RatOne
             /\ \E j \in 1..Len(knn.index) :
                    /\ knn.ids[j] = last.ids[1]
                    /\ ScoreOfRow(j) = RatOne
             /\ \A i \in 1..Len(knn.index) :
                    (/\ knn.index[i].v = last.q
                     /\ \A j \in 1..Len(knn.index) : j # i => ScoreOfRow(j) # RatOne)
                    => last.ids[1] = knn.ids[i]

\* C11 witness: a search for a nonzero vector stored under two identifiers,
\* next to a different vector, has answered.
C11_Witness ==
    /\ SelfSearch
    /\ Dot(last.q, last.q) > 0
    /\ Len(last.ids) >= 1
    /\ \E i, j \in 1..Len(knn.index) :
          i # j /\ knn.index[i].v = last.q /\ knn.index[j].v = last.q
    /\ \E j \in 1..Len(knn.index) : knn.index[j].v # last.q

\* normalize_coords has returned: input batch last.q, scale last.k, output
\* batch last.results
Normalized == last.op = "normalize_coords" /\ last.status = "returned"

\* the longest side of the bounding box of a batch of integer points
LongestSide(coords) ==
    SetMax({ coords[i][a] - coords[j][a] :
               i \in 1..Len(coords), j \in 1..Len(coords), a \in 1..3 })

\* the per-axis midpoint of the bounding box, doubled
Midpoint2(coords, a) ==
    SetMin({ coords[i][a] : i \in 1..Len(coords) })
    + SetMax({ coords[i][a] : i \in 1..Len(coords) })

RatInt(x) == [n |-> x, d |-> 1]

BoxBatch == << <<0, 0, 0>>, <<2, 0, 0>>, <<0, 2, 0>>, <<2, 2, 0>> >>

\* C12: for a batch whose bounding box has a positive longest side,
\* normalize_coords centres on the bounding-box midpoint and multiplies every
\* axis by the one factor 2*scale/range: every output coordinate lies in
\* [-scale, +scale], some axis attains both ends, differences along every axis
\* are scaled by the same factor, and the 2 x 2 x 0 box with scale 10 goes to
\* the corners (+-10, +-10, 0).
C12_UniformScale ==
    (Normalized /\ LongestSide(last.q) > 0) =>
        LET n == Len(last.q)
            range == LongestSide(last.q)
            out == last.results
        IN /\ Len(out) = n
           /\ \A i \in 1..n, a \in 1..3 :
                 /\ RatLeq(RatInt(-last.k), out[i][a])
                 /\ RatLeq(out[i][a], RatInt(last.k))
                 \* out = (c - mid) * 2 * scale / range
                 /\ out[i][a].n * range
                      = (2 * last.q[i][a] - Midpoint2(last.q, a)) * last.k * out[i][a].d
           /\ \E a \in 1..3 :
                 /\ \E i \in 1..n : out[i][a] = RatInt(-last.k)
                 /\ \E i \in 1..n : out[i][a] = RatInt(last.k)
           /\ \A i \in 1..n, j \in 1..n, a \in 1..3 :
                 (out[i][a].n * out[j][a].d - out[j][a].n * out[i][a].d) * range
                   = (last.q[i][a] - last.q[j][a]) * 2 * last.k
                       * out[i][a].d * out[j][a].d
           /\ (last.q = BoxBatch /\ last.k = Scale) =>
                 out = << << RatInt(-10), RatInt(-10), RatZero >>,
                          << RatInt(10), RatInt(-10), RatZero >>,
                          << RatInt(-10), RatInt(10), RatZero >>,
                          << RatInt(10), RatInt(10), RatZero >> >>

\* C12 witness: the 2 x 2 x 0 box has been normalised with scale 10.
C12_Witness ==
    /\ Normalized
    /\ last.q = BoxBatch
    /\ last.k = Scale
    /\ last.results[4] = << RatInt(10), RatInt(10), RatZero >>

\* C13: a batch whose points are all identical comes back with every point at
\* the origin, for every scale, and the call returns.
C13_DegenerateToOrigin ==
    (/\ last.op \in { "fit_transform", "normalize_coords" }
     /\ last.op = "normalize_coords" => LongestSide(last.q) = 0
     /\ last.op = "fit_transform" => LongestSide(last.results) = 0)
    => /\ last.op = "fit_transform" => ENABLED NormalizeCoords
       /\ last.op = "normalize_coords" =>
             /\ last.status = "returned"
             /\ Len(last.results) = Len(last.q)
             /\ \A i \in 1..Len(last.results) :
                   last.results[i] = << RatZero, RatZero, RatZero >>

\* C13 witness: three copies of a point off the origin have been normalised
\* with scale 10.
C13_Witness ==
    /\ Normalized
    /\ last.q = << <<1, 1, 1>>, <<1, 1, 1>>, <<1, 1, 1>> >>
    /\ last.k = Scale
    /\ last.results[1] = << RatZero, RatZero, RatZero >>

C15_IngestAddsFreshId ==
    [][ IF last'.op = "upload" /\ last'.status = "200"
        THEN /\ Len(image_database') = Len(image_database) + 1
             /\ \A i \in 1..Len(image_database) :
                   image_database'[i] = image_database[i]
             /\ \A i \in 1..Len(image_database) :
                   image_database[i].id # image_database'[Len(image_database')].id
             /\ last'.ids = << image_database'[Len(image_database')].id >>
        ELSE StoreIds(image_database') = StoreIds(image_database) ]_vars

\* C15 witness: a third ingest has succeeded, of an image whose embedding an
\* earlier record already carries.
C15_Witness ==
    /\ last.op = "upload"
    /\ last.status = "200"
    /\ Len(image_database) = 3
    /\ image_database[3].embedding = image_database[1].embedding
    /\ Cardinality(SeqRange(StoreIds(image_database))) = 3

\* C16 (as stated): add_embeddings given a number of rows different from the
\* number of identifiers fails with a length-mismatch error and leaves the
\* index and the identifier list as they were.
C16_LengthMismatchRejected ==
    [][ (last'.op = "add_embeddings" /\ Len(last'.q) # Len(last'.ids)) =>
          /\ last'.status \notin { "ok", "ValueError" }
          /\ knn'.index = knn.index
          /\ knn'.ids = knn.ids ]_vars

\* C17: add_embeddings given rows of a width other than the index's fails with
\* the dimension error (ValueError) and leaves the index vectors, the
\* identifier list and the index size as they were.
C17_WidthMismatchRejected ==
    [][ (last'.op = "add_embeddings" /\ Len(last'.q[1]) # knn.embedding_dim) =>
          /\ last'.status = "ValueError"
          /\ knn'.index = knn.index
          /\ knn'.embeddings = knn.embeddings
          /\ knn'.ids = knn.ids
          /\ NTotal(knn') = NTotal(knn) ]_vars

\* C17 witness: a batch of two short rows was refused by an index that holds
\* rows already.
C17_Witness ==
    /\ last.op = "add_embeddings"
    /\ last.status = "ValueError"
    /\ Len(last.q) = 2
    /\ Len(last.q[1]) # knn.embedding_dim
    /\ NTotal(knn) >= 2
    /\ Len(knn.ids) = NTotal(knn)

\* C18 (as stated): in every index state, the empty index included, a search
\* whose query has a width other than the index's fails instead of returning
\* a result.
C18_WrongWidthSearchFails ==
    (last.op = "knn_search" /\ Len(last.q) # knn.embedding_dim)
        => last.status # "returned"

\* C19 (as stated): in every state reachable by ingest, projection, graph
\* build and restart, every identifier export returns, in its coordinates, in
\* the sources and targets of its graph edges and in its metadata, is held by
\* the store.
C19_ExportWithinStore ==
    (last.op = "export" /\ last.status = "200") =>
        LET held == SeqRange(StoreIds(image_database))
        IN /\ SeqRange(last.results) \subseteq held
           /\ SeqRange(last.ids) \subseteq held
           /\ \A e \in 1..Len(last.graph) :
                 last.graph[e].source \in held /\ last.graph[e].target \in held

\* the answer of the label service carries a JSON object with both fields
UsableReply(response) ==
    /\ response.kind = "text"
    /\ \E i, j \in 1..Len(response.text) :
          /\ i < j
          /\ response.text[i] = LBrace
          /\ response.text[j] = RBrace
          /\ JsonDecodes(SubSeq(response.text, i, j))
          /\ \E m \in (i + 1)..(j - 1) :
                response.text[m].kind = "pair" /\ response.text[m].key = "title"
          /\ \E m \in (i + 1)..(j - 1) :
                response.text[m].kind = "pair" /\ response.text[m].key = "description"

\* C20 (as stated): name_cluster always returns a mapping with a title and a
\* description, and whenever the label service is unconfigured, fails or
\* answers text that is not usable JSON with those two fields, the result is
\* the fallback label made of the first three descriptor names only.
C20_AlwaysTitleAndDescription ==
    last.op = "name_cluster" =>
        /\ HasKey(last.graph, "title")
        /\ HasKey(last.graph, "description")
        /\ ~UsableReply(last.results[1]) =>
              last.graph =
                 << [key |-> "title",
                     value |-> << "Cluster: " >> \o Join(SubSeqTo(last.q, 3))],
                    [key |-> "description",
                     value |-> << "Images featuring " >>
                                 \o Join(SubSeqTo(last.q, 3)) \o << "." >>] >>

\* C21 (as stated): the projection-fitted flag is false at start, changes only
\* to true and only as the result of a projection that completed successfully
\* (answered 200), and no other request changes it.
C21_FlagFollowsSuccessfulProjection ==
    [][ is_projection_fitted' # is_projection_fitted =>
          /\ is_projection_fitted' = TRUE
          /\ last'.op = "project"
          /\ last'.status = "200" ]_vars

IsPrefix(s, t) == Len(s) <= Len(t) /\ \A i \in 1..Len(s) : t[i] = s[i]

\* C22 (as stated): across every call the identifier list and the stored
\* vectors before it are prefixes of those after it, and after every add
\* each identifier of the call stands at the position of the row it was
\* passed with.
C22_AppendOnlyAligned ==
    [][ /\ IsPrefix(knn.ids, knn'.ids)
        /\ IsPrefix(knn.index, knn'.index)
        /\ (last'.op = "add_embeddings" /\ last'.status = "ok") =>
              \A j \in 1..Len(last'.ids) :
                 /\ j <= Len(last'.q)
                 /\ \E pos \in 1..Len(knn'.ids) :
                       /\ knn'.ids[pos] = last'.ids[j]
                       /\ pos <= NTotal(knn')
                       /\ knn'.index[pos].v = last'.q[j] ]_vars

\* C23 (as stated): the graph document written by POST /graph reports the k
\* the graph was built with, the number of nodes of the graph, and an edge
\* count equal to the length of its edge list, for every graph, those built
\* on fewer than k + 1 vectors included.
C23_DocumentReportsBuildK ==
    (last.op = "graph" /\ last.status = "200") =>
        /\ graph_file.state = "ok"
        /\ graph_file.doc.k = last.k
        /\ graph_file.doc.num_nodes = last.n
        /\ graph_file.doc.num_edges = Len(graph_file.doc.edges)

\* the row of the index stored under an identifier
RowOfId(id) == knn.index[CHOOSE p \in 1..Len(knn.ids) : knn.ids[p] = id]

\* C24: for both metrics every node's edge list is in best-first order with
\* non-increasing weight; a cosine edge carries the similarity of its two
\* rows, a euclidean edge 1/(1 + distance) of its two rows, which lies in
\* (0, 1].
C24_WeightsBestFirst ==
    last.op = "build_knn_graph" =>
        \A i \in 1..Len(last.graph) :
            LET node == last.graph[i].node
                nbrs == last.graph[i].neighbors
            IN /\ \A j \in 1..(Len(nbrs) - 1) :
                     RatLeq(nbrs[j + 1].weight, nbrs[j].weight)
               /\ \A j \in 1..Len(nbrs) :
                     IF knn.metric = "cosine"
                     THEN nbrs[j].weight
                            = InnerProduct(RowOfId(nbrs[j].target), RowOfId(node))
                     ELSE /\ RatLess(RatZero, nbrs[j].weight)
                          /\ RatLeq(nbrs[j].weight, RatOne)
                          \* weight * (1 + distance) = 1
                          /\ LET dist == L2Sqr(RowOfId(nbrs[j].target), RowOfId(node))
                             IN nbrs[j].weight.n * (dist.d + dist.n)
                                  = nbrs[j].weight.d * dist.d

\* C24 witness: a euclidean graph with a node whose two edges have different
\* weights, the nearer neighbour first.
C24_Witness ==
    /\ last.op = "build_knn_graph"
    /\ knn.metric = "euclidean"
    /\ \E i \in 1..Len(last.graph) :
          /\ Len(last.graph[i].neighbors) = 2
          /\ RatLess(last.graph[i].neighbors[2].weight,
                     last.graph[i].neighbors[1].weight)
          /\ RatLess(last.graph[i].neighbors[1].weight, RatOne)

====
